---- MODULE Spec2Model ----
(***************************************************************************)
(* Conversation-state orchestration of chat_with_claude.py: the main chat  *)
(* loop, send_message, execute_tool and process_tool_use_response.         *)
(*                                                                         *)
(* A transcript ("conversation") is a sequence of turns.  A turn is a      *)
(* record [role, content]; content is tagged, [str |-> s] for the string   *)
(* a user typed and [list |-> blocks] for a list of content blocks.        *)
(* A JSON value is tagged too: [t |-> "object", v |-> record] or           *)
(* [t |-> "null"].                                                         *)
(***************************************************************************)
EXTENDS Integers, Sequences, FiniteSets, TLC

VARIABLES
    pc,                \* position of main / process_tool_use_response
    conversation,      \* main: conversation (the transcript)
    user_input,        \* main: the line read by input()
    response_data,     \* main: what the first send_message returned
    tool_use,          \* process_tool_use_response: the extracted block
    conversation_copy, \* process_tool_use_response: the saved transcript
    tool_result,       \* process_tool_use_response: what execute_tool returned
    final_response,    \* process_tool_use_response: the follow-up reply
    nextId,            \* service side: next correlation id to hand out
    cycleStart,        \* history: transcript when the current cycle started
    calls,             \* history: send_message calls made in this cycle
    execs,             \* history: <<name, input>> of each execute_tool call
    outcome,           \* history: how the last cycle ended
    fault,             \* history: how the last send_message failed, if it did
    sent,              \* history: the messages the last send_message was given
    sentAfter          \* history: those messages when that call returned

vars == <<pc, conversation, user_input, response_data, tool_use,
          conversation_copy, tool_result, final_response, nextId,
          cycleStart, calls, execs, outcome, fault, sent, sentAfter>>

(***************************************************************************)
(* Bounds of the model.                                                    *)
(***************************************************************************)
MaxTurns == 3    \* a new user turn is read only while the transcript is shorter
MaxBlocks == 2   \* content blocks in one reply
MaxIds == 2      \* tool_use blocks the service emits in one session

(***************************************************************************)
(* Inputs.                                                                 *)
(***************************************************************************)
UserInputs == {"hello", "Reset", "q"}

\* str.lower() on the lines the model types
Lower(s) == IF s = "Reset" THEN "reset" ELSE s

StopReasons == {"end_turn", "tool_use", "max_tokens"}

JsonObject(v) == [t |-> "object", v |-> v]
JsonNull == [t |-> "null"]

\* <<name, input>> of the tool_use blocks the service sends: the registered
\* tool with a mapping, the registered tool with a non-mapping, an unknown tool
ToolCalls ==
    {<<"search_web", JsonObject([query |-> "cats"])>>,
     <<"search_web", JsonNull>>,
     <<"get_weather", JsonObject([query |-> "cats"])>>}

Times == {17}

TextBlock == [type |-> "text", text |-> "hi"]

\* what a reply's blocks look like before the service stamps its ids
BlockShapes ==
    {TextBlock} \cup
    {[type |-> "tool_use", name |-> c[1], input |-> c[2]] : c \in ToolCalls}

ShapeSeqs == UNION {[1..n -> BlockShapes] : n \in 0..MaxBlocks}

IsToolUse(b) == b.type = "tool_use"

NumToolUse(s) == Cardinality({i \in 1..Len(s) : IsToolUse(s[i])})

\* the service stamps fresh correlation ids, next, next+1, ..., in block order
Stamp(shapes, next) ==
    [i \in 1..Len(shapes) |->
        IF IsToolUse(shapes[i])
        THEN [type |-> "tool_use",
              id |-> next + NumToolUse(SubSeq(shapes, 1, i - 1)),
              name |-> shapes[i].name,
              input |-> shapes[i].input]
        ELSE shapes[i]]

None == [stop_reason |-> "none", content |-> <<>>]
NoBlock == [type |-> "none"]
NoResult == [none |-> TRUE]


(***************************************************************************)
(* search_web and execute_tool.                                            *)
(***************************************************************************)
\* params.get raises AttributeError when params is not a mapping
SearchWebRaises(params) == params.t # "object"

SearchResult(n, query) ==
    [title |-> "Result " \o n \o " for " \o query]

search_web(params, now) ==
    LET query == IF "query" \in DOMAIN params.v THEN params.v.query ELSE ""
        results == <<SearchResult("1", query), SearchResult("2", query),
                     SearchResult("3", query)>>
    IN  [query |-> query,
         results |-> results,
         search_time |-> now,
         result_count |-> Len(results)]

\* a variant without the try/except: what the handler raises gets out, and
\* tool_result is never bound
ExecuteToolNoCatch(tool_name, tool_input, now) ==
    IF tool_name = "search_web"
    THEN IF SearchWebRaises(tool_input)
         THEN NoResult
         ELSE search_web(tool_input, now)
    ELSE [error |-> "Unknown tool: " \o tool_name]

execute_tool(tool_name, tool_input, now) ==
    IF tool_name = "search_web"
    THEN IF SearchWebRaises(tool_input)
         THEN [error |-> "Error executing tool " \o tool_name \o
                         ": 'NoneType' object has no attribute 'get'"]
         ELSE search_web(tool_input, now)
    ELSE [error |-> "Unknown tool: " \o tool_name]

\* a variant that never flags an error
IsErrorNever(result) == FALSE

\* is_error = 'error' in tool_result
IsError(result) == "error" \in DOMAIN result

\* json.dumps of the two dictionaries execute_tool can return
JsonDumps(d) ==
    IF "error" \in DOMAIN d
    THEN "{\"error\": \"" \o d.error \o "\"}"
    ELSE "{\"query\": \"" \o d.query \o "\", \"results\": [" \o
         "{\"title\": \"" \o d.results[1].title \o "\"}, " \o
         "{\"title\": \"" \o d.results[2].title \o "\"}, " \o
         "{\"title\": \"" \o d.results[3].title \o "\"}], " \o
         "\"search_time\": " \o ToString(d.search_time) \o
         ", \"result_count\": " \o ToString(d.result_count) \o "}"

(***************************************************************************)
(* Turns and the helpers of process_tool_use_response.                     *)
(***************************************************************************)
UserTurn(text) == [role |-> "user", content |-> [str |-> text]]

AssistantTurn(blocks) == [role |-> "assistant", content |-> [list |-> blocks]]

\* a variant whose loop has no break: the last tool_use block wins
FindLastToolUse(content) ==
    LET hits == {i \in 1..Len(content) : content[i].type = "tool_use"}
    IN  IF hits = {} THEN [type |-> "none"]
        ELSE content[CHOOSE i \in hits : \A j \in hits : i >= j]

\* the loop at the head of process_tool_use_response: the first tool_use block
FindToolUse(content) ==
    LET hits == {i \in 1..Len(content) : IsToolUse(content[i])}
    IN  IF hits = {} THEN NoBlock
        ELSE content[CHOOSE i \in hits : \A j \in hits : i <= j]

ToolResultBlock(tool_id, result) ==
    [type |-> "tool_result",
     tool_use_id |-> tool_id,
     content |-> JsonDumps(result),
     is_error |-> IsError(result)]

\* a variant that numbers its tool results itself
ToolResultMessageOwnId(block, result) ==
    [role |-> "user",
     content |-> [list |-> <<ToolResultBlock(1, result)>>]]

ToolResultMessage(block, result) ==
    [role |-> "user",
     content |-> [list |-> <<ToolResultBlock(block.id, result)>>]]

\* a variant with "if" for "while": one turn is popped
RestoreOnePop(conv, copy) ==
    IF Len(conv) > Len(copy) THEN SubSeq(conv, 1, Len(conv) - 1) ELSE conv

\* while len(conversation) > len(conversation_copy): conversation.pop()
RECURSIVE Restore(_, _)
Restore(conv, copy) ==
    IF Len(conv) > Len(copy)
    THEN Restore(SubSeq(conv, 1, Len(conv) - 1), copy)
    ELSE conv

\* a variant that trims the history it was given to the latest turn before posting
MessagesAfterSendTrims(messages) ==
    IF messages = <<>> THEN messages
    ELSE SubSeq(messages, Len(messages), Len(messages))

\* the caller's list when send_message returns or raises: the function puts
\* it in the payload and does nothing else with it
MessagesAfterSend(messages) == messages

\* the replies send_message can return when the service's next id is next
Replies(next) ==
    {[stop_reason |-> sr, content |-> Stamp(s, next)] :
        sr \in StopReasons,
        s \in {x \in ShapeSeqs : next + NumToolUse(x) - 1 <= MaxIds}}


(***************************************************************************)
(* The state after main has loaded the key and created the transcript.     *)
(***************************************************************************)
Init ==
    /\ pc = "idle"
    /\ conversation = <<>>
    /\ user_input = ""
    /\ response_data = None
    /\ tool_use = NoBlock
    /\ conversation_copy = <<>>
    /\ tool_result = NoResult
    /\ final_response = None
    /\ nextId = 1
    /\ cycleStart = <<>>
    /\ calls = 0
    /\ execs = <<>>
    /\ outcome = "none"
    /\ fault = "no"
    /\ sent = <<>>
    /\ sentAfter = <<>>

locals == <<response_data, tool_use, conversation_copy, tool_result, final_response>>
history == <<cycleStart, calls, execs, outcome, fault, sent, sentAfter>>
frame == <<sent, sentAfter>>

(***************************************************************************)
(* main: the chat loop.                                                    *)
(***************************************************************************)
\* input() returns an exit command: break
ReadExit ==
    /\ pc = "idle"
    /\ \E u \in UserInputs :
        /\ Lower(u) \in {"exit", "quit", "q"}
        /\ user_input' = u
    /\ pc' = "exited"
    /\ UNCHANGED <<conversation, locals, nextId, history>>

\* a variant that reports the reset and leaves the transcript as it is
ReadResetKeeps ==
    /\ pc = "idle"
    /\ \E u \in UserInputs :
        /\ Lower(u) \notin {"exit", "quit", "q"}
        /\ Lower(u) = "reset"
        /\ user_input' = u
    /\ outcome' = "reset"
    /\ UNCHANGED <<pc, conversation, locals, nextId, cycleStart, calls, execs, fault, frame>>

\* input() returns the reset command: conversation = []
ReadReset ==
    /\ pc = "idle"
    /\ \E u \in UserInputs :
        /\ Lower(u) \notin {"exit", "quit", "q"}
        /\ Lower(u) = "reset"
        /\ user_input' = u
    /\ conversation' = <<>>
    /\ outcome' = "reset"
    /\ UNCHANGED <<pc, locals, nextId, cycleStart, calls, execs, fault, frame>>

\* input() returns anything else: the user turn is appended and sent
ReadUser ==
    /\ pc = "idle"
    /\ Len(conversation) < MaxTurns
    /\ \E u \in UserInputs :
        /\ Lower(u) \notin {"exit", "quit", "q"}
        /\ Lower(u) # "reset"
        /\ user_input' = u
        /\ conversation' = Append(conversation, UserTurn(u))
    /\ pc' = "awaiting_reply"
    /\ cycleStart' = conversation
    /\ calls' = 0
    /\ execs' = <<>>
    /\ outcome' = "running"
    /\ fault' = "no"
    /\ response_data' = None
    /\ tool_use' = NoBlock
    /\ conversation_copy' = <<>>
    /\ tool_result' = NoResult
    /\ final_response' = None
    /\ sent' = <<>>
    /\ sentAfter' = <<>>
    /\ UNCHANGED nextId

\* send_message returns a reply
SendReply ==
    /\ pc = "awaiting_reply"
    /\ \E r \in Replies(nextId) :
        /\ response_data' = r
        /\ nextId' = nextId + NumToolUse(r.content)
    /\ sent' = conversation
    /\ sentAfter' = MessagesAfterSend(conversation)
    /\ conversation' = MessagesAfterSend(conversation)
    /\ calls' = calls + 1
    /\ pc' = "classify"
    /\ UNCHANGED <<user_input, tool_use, conversation_copy,
                   tool_result, final_response, cycleStart, execs, outcome, fault>>

\* a variant that takes the user turn back when the call fails
SendNoneDropsUser ==
    /\ pc = "awaiting_reply"
    /\ response_data' = None
    /\ sent' = conversation
    /\ sentAfter' = MessagesAfterSend(conversation)
    /\ conversation' = SubSeq(conversation, 1, Len(conversation) - 1)
    /\ calls' = calls + 1
    /\ pc' = "idle"
    /\ outcome' = "first_failed"
    /\ fault' = "none"
    /\ UNCHANGED <<user_input, tool_use, conversation_copy,
                   tool_result, final_response, nextId, cycleStart, execs>>

\* send_message catches the request's failure and returns None: main reports
\* it and reads the next line
SendNone ==
    /\ pc = "awaiting_reply"
    /\ response_data' = None
    /\ calls' = calls + 1
    /\ pc' = "idle"
    /\ outcome' = "first_failed"
    /\ sent' = conversation
    /\ sentAfter' = MessagesAfterSend(conversation)
    /\ conversation' = MessagesAfterSend(conversation)
    /\ fault' = "none"
    /\ UNCHANGED <<user_input, tool_use, conversation_copy,
                   tool_result, final_response, nextId, cycleStart, execs>>

\* a variant of main without the handler: the exception ends the process
SendRaiseCrashes ==
    /\ pc = "awaiting_reply"
    /\ sent' = conversation
    /\ sentAfter' = MessagesAfterSend(conversation)
    /\ conversation' = MessagesAfterSend(conversation)
    /\ calls' = calls + 1
    /\ pc' = "exited"
    /\ outcome' = "first_failed"
    /\ fault' = "raise"
    /\ UNCHANGED <<user_input, locals, nextId, cycleStart, execs>>

\* send_message raises something it does not catch: main's handler reports it
SendRaise ==
    /\ pc = "awaiting_reply"
    /\ calls' = calls + 1
    /\ pc' = "idle"
    /\ outcome' = "first_failed"
    /\ sent' = conversation
    /\ sentAfter' = MessagesAfterSend(conversation)
    /\ conversation' = MessagesAfterSend(conversation)
    /\ fault' = "raise"
    /\ UNCHANGED <<user_input, locals, nextId, cycleStart, execs>>

\* a variant that keeps only the text blocks of the reply
MainPlainTextOnly ==
    /\ pc = "classify"
    /\ response_data.stop_reason # "tool_use"
    /\ conversation' =
          Append(conversation,
                 AssistantTurn(SelectSeq(response_data.content,
                                         LAMBDA b : b.type = "text")))
    /\ pc' = "idle"
    /\ outcome' = "plain"
    /\ UNCHANGED <<user_input, locals, nextId, cycleStart, calls, execs, fault, frame>>

\* stop_reason is not tool_use: the reply's content is appended
MainPlain ==
    /\ pc = "classify"
    /\ response_data.stop_reason # "tool_use"
    /\ conversation' = Append(conversation, AssistantTurn(response_data.content))
    /\ pc' = "idle"
    /\ outcome' = "plain"
    /\ UNCHANGED <<user_input, locals, nextId, cycleStart, calls, execs, fault, frame>>

(***************************************************************************)
(* process_tool_use_response.                                              *)
(***************************************************************************)
\* a variant that returns without keeping the reply
ProcessAnomalyDrops ==
    /\ pc = "classify"
    /\ response_data.stop_reason = "tool_use"
    /\ FindToolUse(response_data.content) = NoBlock
    /\ tool_use' = NoBlock
    /\ pc' = "idle"
    /\ outcome' = "anomaly"
    /\ UNCHANGED <<conversation, user_input, response_data, conversation_copy,
                   tool_result, final_response, nextId, cycleStart, calls, execs,
                   fault, frame>>

\* a variant in which main appends the reply again after the function returns
ProcessAnomalyTwice ==
    /\ pc = "classify"
    /\ response_data.stop_reason = "tool_use"
    /\ FindToolUse(response_data.content) = NoBlock
    /\ tool_use' = NoBlock
    /\ conversation' =
          Append(Append(conversation, AssistantTurn(response_data.content)),
                 AssistantTurn(response_data.content))
    /\ pc' = "idle"
    /\ outcome' = "anomaly"
    /\ UNCHANGED <<user_input, response_data, conversation_copy, tool_result,
                   final_response, nextId, cycleStart, calls, execs, fault, frame>>

\* no tool_use block is found: the reply is appended and the function returns
ProcessAnomaly ==
    /\ pc = "classify"
    /\ response_data.stop_reason = "tool_use"
    /\ FindToolUse(response_data.content) = NoBlock
    /\ tool_use' = NoBlock
    /\ conversation' = Append(conversation, AssistantTurn(response_data.content))
    /\ pc' = "idle"
    /\ outcome' = "anomaly"
    /\ UNCHANGED <<user_input, response_data, conversation_copy, tool_result,
                   final_response, nextId, cycleStart, calls, execs, fault, frame>>

\* a variant that saves the transcript as it was before the user turn
ProcessCheckpointStale ==
    /\ pc = "classify"
    /\ response_data.stop_reason = "tool_use"
    /\ FindToolUse(response_data.content) # NoBlock
    /\ tool_use' = FindToolUse(response_data.content)
    /\ conversation_copy' = SubSeq(conversation, 1, Len(conversation) - 1)
    /\ pc' = "executing"
    /\ UNCHANGED <<conversation, user_input, response_data, tool_result,
                   final_response, nextId, history>>

\* a variant that appends the assistant message as soon as the transcript is saved
ProcessCheckpointAppends ==
    /\ pc = "classify"
    /\ response_data.stop_reason = "tool_use"
    /\ FindToolUse(response_data.content) # NoBlock
    /\ tool_use' = FindToolUse(response_data.content)
    /\ conversation_copy' = conversation
    /\ conversation' = Append(conversation, AssistantTurn(response_data.content))
    /\ pc' = "executing"
    /\ UNCHANGED <<user_input, response_data, tool_result,
                   final_response, nextId, history>>

\* a tool_use block is found: the transcript is saved
ProcessCheckpoint ==
    /\ pc = "classify"
    /\ response_data.stop_reason = "tool_use"
    /\ FindToolUse(response_data.content) # NoBlock
    /\ tool_use' = FindToolUse(response_data.content)
    /\ conversation_copy' = conversation
    /\ pc' = "executing"
    /\ UNCHANGED <<conversation, user_input, response_data, tool_result,
                   final_response, nextId, history>>

\* tool_result = execute_tool(tool_name, tool_input)
ExecuteTool ==
    /\ pc = "executing"
    /\ \E now \in Times :
        tool_result' = execute_tool(tool_use.name, tool_use.input, now)
    /\ execs' = Append(execs, <<tool_use.name, tool_use.input>>)
    /\ pc' = "appending"
    /\ UNCHANGED <<conversation, user_input, response_data, tool_use,
                   conversation_copy, final_response, nextId,
                   cycleStart, calls, outcome, fault, frame>>

\* a variant that forgets the assistant message and appends the tool result alone
AppendToolTurnsResultOnly ==
    /\ pc = "appending"
    /\ conversation' = Append(conversation, ToolResultMessage(tool_use, tool_result))
    /\ pc' = "awaiting_followup"
    /\ UNCHANGED <<user_input, locals, nextId, history>>

\* a variant that appends the tool result before the assistant message
AppendToolTurnsSwapped ==
    /\ pc = "appending"
    /\ conversation' =
          Append(Append(conversation, ToolResultMessage(tool_use, tool_result)),
                 AssistantTurn(response_data.content))
    /\ pc' = "awaiting_followup"
    /\ UNCHANGED <<user_input, locals, nextId, history>>

\* the assistant message and the tool_result message are appended
AppendToolTurns ==
    /\ pc = "appending"
    /\ conversation' =
          Append(Append(conversation, AssistantTurn(response_data.content)),
                 ToolResultMessage(tool_use, tool_result))
    /\ pc' = "awaiting_followup"
    /\ UNCHANGED <<user_input, locals, nextId, history>>

\* a variant that serves a tool_use follow-up with another tool execution
FollowupReplyMultiHop ==
    /\ pc = "awaiting_followup"
    /\ \E r \in Replies(nextId) :
        /\ final_response' = r
        /\ nextId' = nextId + NumToolUse(r.content)
        /\ IF r.stop_reason = "tool_use" /\ FindToolUse(r.content) # NoBlock
           THEN /\ response_data' = r
                /\ tool_use' = FindToolUse(r.content)
                /\ pc' = "executing"
                /\ UNCHANGED <<conversation, outcome>>
           ELSE /\ conversation' = Append(MessagesAfterSend(conversation),
                                         AssistantTurn(r.content))
                /\ pc' = "idle"
                /\ outcome' = "round_trip"
                /\ UNCHANGED <<response_data, tool_use>>
    /\ sent' = conversation
    /\ sentAfter' = MessagesAfterSend(conversation)
    /\ calls' = calls + 1
    /\ UNCHANGED <<user_input, conversation_copy,
                   tool_result, cycleStart, execs, fault>>

\* the follow-up send_message returns a reply: it is appended
FollowupReply ==
    /\ pc = "awaiting_followup"
    /\ \E r \in Replies(nextId) :
        /\ final_response' = r
        /\ nextId' = nextId + NumToolUse(r.content)
        /\ conversation' = Append(MessagesAfterSend(conversation),
                                 AssistantTurn(r.content))
    /\ sent' = conversation
    /\ sentAfter' = MessagesAfterSend(conversation)
    /\ calls' = calls + 1
    /\ pc' = "idle"
    /\ outcome' = "round_trip"
    /\ UNCHANGED <<user_input, response_data, tool_use, conversation_copy,
                   tool_result, cycleStart, execs, fault>>

\* a variant that sends the tool result once more after a failed follow-up call
FollowupNoneRetries ==
    /\ pc = "awaiting_followup"
    /\ final_response' = None
    /\ sent' = conversation
    /\ sentAfter' = MessagesAfterSend(conversation)
    /\ calls' = calls + 1
    /\ IF fault = "no"
       THEN /\ conversation' = MessagesAfterSend(conversation)
            /\ UNCHANGED <<pc, outcome>>
       ELSE /\ conversation' = Restore(MessagesAfterSend(conversation), conversation_copy)
            /\ pc' = "idle"
            /\ outcome' = "rolled_back"
    /\ fault' = "none"
    /\ UNCHANGED <<user_input, response_data, tool_use, conversation_copy,
                   tool_result, nextId, cycleStart, execs>>

\* the follow-up send_message returns None: the else branch restores the transcript
FollowupNone ==
    /\ pc = "awaiting_followup"
    /\ final_response' = None
    /\ sent' = conversation
    /\ sentAfter' = MessagesAfterSend(conversation)
    /\ conversation' = Restore(MessagesAfterSend(conversation), conversation_copy)
    /\ calls' = calls + 1
    /\ pc' = "idle"
    /\ outcome' = "rolled_back"
    /\ fault' = "none"
    /\ UNCHANGED <<user_input, response_data, tool_use, conversation_copy,
                   tool_result, nextId, cycleStart, execs>>

\* a variant whose except branch reports the error and restores nothing
FollowupRaiseKeeps ==
    /\ pc = "awaiting_followup"
    /\ sent' = conversation
    /\ sentAfter' = MessagesAfterSend(conversation)
    /\ conversation' = MessagesAfterSend(conversation)
    /\ calls' = calls + 1
    /\ pc' = "idle"
    /\ outcome' = "rolled_back"
    /\ fault' = "raise"
    /\ UNCHANGED <<user_input, locals, nextId, cycleStart, execs>>

\* the follow-up send_message raises: the except branch restores the transcript
FollowupRaise ==
    /\ pc = "awaiting_followup"
    /\ sent' = conversation
    /\ sentAfter' = MessagesAfterSend(conversation)
    /\ conversation' = Restore(MessagesAfterSend(conversation), conversation_copy)
    /\ calls' = calls + 1
    /\ pc' = "idle"
    /\ outcome' = "rolled_back"
    /\ fault' = "raise"
    /\ UNCHANGED <<user_input, locals, nextId, cycleStart, execs>>

Next ==
    \/ ReadExit
    \/ ReadReset
    \/ ReadUser
    \/ SendReply
    \/ SendNone
    \/ SendRaise
    \/ MainPlain
    \/ ProcessAnomaly
    \/ ProcessCheckpoint
    \/ ExecuteTool
    \/ AppendToolTurns
    \/ FollowupReply
    \/ FollowupNone
    \/ FollowupRaise

Spec == Init /\ [][Next]_vars

\* the steps main takes by itself once a line is read: the one thread runs on,
\* every send_message call returns or raises, and every tool execution returns
CycleStep ==
    \/ SendReply
    \/ SendNone
    \/ SendRaise
    \/ MainPlain
    \/ ProcessAnomaly
    \/ ProcessCheckpoint
    \/ ExecuteTool
    \/ AppendToolTurns
    \/ FollowupReply
    \/ FollowupNone
    \/ FollowupRaise

FairSpec == Spec /\ WF_vars(CycleStep)


(***************************************************************************)
(* Vocabulary of the properties.                                           *)
(***************************************************************************)
\* the content blocks of a turn; a typed user turn has none
Blocks(turn) ==
    IF "list" \in DOMAIN turn.content THEN turn.content.list ELSE <<>>

\* the positions of the tool_use blocks in a list of blocks
Invocations(blocks) == {i \in 1..Len(blocks) : blocks[i].type = "tool_use"}

\* the first tool_use block in content order
FirstInvocation(blocks) ==
    blocks[CHOOSE i \in Invocations(blocks) : \A j \in Invocations(blocks) : i <= j]

IsToolResultTurn(turn) ==
    \E m \in 1..Len(Blocks(turn)) : Blocks(turn)[m].type = "tool_result"

\* control is back in the input loop after a user-input cycle
CycleOver == pc = "idle" /\ outcome \notin {"none", "reset"}

FirstCallFailed == response_data = None /\ fault # "no"

FirstIsToolUseRequest ==
    /\ response_data # None
    /\ response_data.stop_reason = "tool_use"
    /\ Invocations(response_data.content) # {}

FollowupFailed == FirstIsToolUseRequest /\ fault # "no"

FollowupSucceeded == FirstIsToolUseRequest /\ fault = "no" /\ final_response # None

ToolOutcomeIsError == tool_result # NoResult /\ "error" \in DOMAIN tool_result

LastTurn == conversation[Len(conversation)]

(***************************************************************************)
(* C1  Rollback.  When the first reply is a tool-use request with an       *)
(* invocation and the follow-up send_message returns None or raises, the   *)
(* transcript at the end of the cycle is the transcript the cycle started  *)
(* with plus the one new user turn.                                        *)
(***************************************************************************)
Rollback_C1 ==
    (CycleOver /\ FollowupFailed) =>
        conversation = Append(cycleStart, UserTurn(user_input))

\* a follow-up call raised after a two-block reply, on a non-empty transcript
Rollback_C1_Witness ==
    /\ CycleOver /\ FollowupFailed /\ fault = "raise"
    /\ cycleStart # <<>>
    /\ Len(response_data.content) = 2
    /\ Len(execs) = 1

(***************************************************************************)
(* C2  No orphan tool turns.  Whenever control is back in the input loop,  *)
(* every tool_use block of the transcript is answered by a tool_result     *)
(* block with its id in the turn right after the turn that holds it.       *)
(***************************************************************************)
NoOrphanToolTurns_C2 ==
    pc = "idle" =>
        \A i \in 1..Len(conversation) :
            \A k \in Invocations(Blocks(conversation[i])) :
                /\ i < Len(conversation)
                /\ \E m \in 1..Len(Blocks(conversation[i + 1])) :
                      /\ Blocks(conversation[i + 1])[m].type = "tool_result"
                      /\ Blocks(conversation[i + 1])[m].tool_use_id =
                            Blocks(conversation[i])[k].id

(***************************************************************************)
(* C3  Error-as-data.  When execute_tool returned an error, the tool       *)
(* result turn is still appended, with is_error true, and the cycle ends   *)
(* only after the follow-up send_message call has been made.               *)
(***************************************************************************)
ErrorAsData_C3 ==
    /\ (pc = "awaiting_followup" /\ ToolOutcomeIsError) =>
          /\ Len(Blocks(LastTurn)) = 1
          /\ Blocks(LastTurn)[1].type = "tool_result"
          /\ Blocks(LastTurn)[1].is_error = TRUE
    /\ (CycleOver /\ ToolOutcomeIsError) =>
          /\ calls = 2
          /\ outcome \in {"round_trip", "rolled_back"}
          /\ fault = "no" =>
                /\ Blocks(conversation[Len(conversation) - 1])[1].type = "tool_result"
                /\ Blocks(conversation[Len(conversation) - 1])[1].is_error = TRUE

\* the registered tool raised, its error went to the service, a reply came back
ErrorAsData_C3_Witness ==
    /\ CycleOver /\ ToolOutcomeIsError /\ fault = "no"
    /\ tool_use.name = "search_web"
    /\ calls = 2

(***************************************************************************)
(* C4  Single-hop limit.  A cycle executes at most one tool and makes at   *)
(* most two send_message calls; a follow-up reply with stop reason         *)
(* tool_use is appended as the last assistant turn and ends the cycle.     *)
(***************************************************************************)
SingleHop_C4 ==
    /\ Len(execs) <= 1
    /\ calls <= 2
    /\ (final_response # None /\ final_response.stop_reason = "tool_use") =>
          /\ pc \in {"idle", "exited"}
          /\ CycleOver =>
                /\ Len(execs) = 1
                /\ calls = 2
                /\ LastTurn = AssistantTurn(final_response.content)

\* the follow-up reply asked for another tool
SingleHop_C4_Witness ==
    /\ CycleOver
    /\ final_response # None
    /\ final_response.stop_reason = "tool_use"
    /\ Invocations(final_response.content) # {}

(***************************************************************************)
(* C5  First-call failure.  When the first send_message of a cycle fails,  *)
(* the transcript at the end of the cycle is the transcript the cycle      *)
(* started with plus the user turn; no tool ran and no second call was     *)
(* made.                                                                   *)
(***************************************************************************)
FirstCallFailure_C5 ==
    (CycleOver /\ FirstCallFailed) =>
        /\ conversation = Append(cycleStart, UserTurn(user_input))
        /\ execs = <<>>
        /\ calls = 1

\* the first call failed on a transcript that already held turns
FirstCallFailure_C5_Witness ==
    /\ CycleOver /\ FirstCallFailed /\ fault = "none"
    /\ Len(cycleStart) >= 2

(***************************************************************************)
(* C6  Classification.  A tool is executed in a cycle exactly when the     *)
(* first reply has stop reason tool_use and holds a tool_use block, and    *)
(* then the one execution uses the name and input of the first tool_use    *)
(* block in content order.                                                 *)
(***************************************************************************)
Classification_C6 ==
    /\ execs # <<>> =>
          /\ FirstIsToolUseRequest
          /\ execs = << <<FirstInvocation(response_data.content).name,
                          FirstInvocation(response_data.content).input>> >>
    /\ (CycleOver /\ FirstIsToolUseRequest) => execs # <<>>

\* a reply with two different tool_use blocks was served
Classification_C6_Witness ==
    /\ CycleOver /\ execs # <<>>
    /\ Cardinality(Invocations(response_data.content)) = 2
    /\ <<response_data.content[2].name, response_data.content[2].input>> # execs[1]

(***************************************************************************)
(* C7  Correlation id echo.  Every tool result turn of the transcript      *)
(* carries the id of the first tool_use block of the assistant turn right  *)
(* before it.                                                              *)
(***************************************************************************)
IdEcho_C7 ==
    \A i \in 1..Len(conversation) :
        IsToolResultTurn(conversation[i]) =>
            /\ i > 1
            /\ conversation[i - 1].role = "assistant"
            /\ Invocations(Blocks(conversation[i - 1])) # {}
            /\ \A m \in 1..Len(Blocks(conversation[i])) :
                  Blocks(conversation[i])[m].tool_use_id =
                      FirstInvocation(Blocks(conversation[i - 1])).id

\* the echoed id is not the first id the service handed out
IdEcho_C7_Witness ==
    /\ CycleOver /\ FollowupSucceeded
    /\ IsToolResultTurn(conversation[Len(conversation) - 1])
    /\ Blocks(conversation[Len(conversation) - 1])[1].tool_use_id = 2

(***************************************************************************)
(* C8  Protocol anomaly.  When the first reply has stop reason tool_use    *)
(* and no tool_use block, the cycle adds the user turn and one assistant   *)
(* turn with the reply's content, runs no tool and makes no second call.   *)
(***************************************************************************)
Anomaly_C8 ==
    (/\ CycleOver
     /\ response_data # None
     /\ response_data.stop_reason = "tool_use"
     /\ Invocations(response_data.content) = {}) =>
        /\ conversation = cycleStart \o <<UserTurn(user_input),
                                          AssistantTurn(response_data.content)>>
        /\ execs = <<>>
        /\ calls = 1

\* a tool_use stop reason came with text only
Anomaly_C8_Witness ==
    /\ CycleOver
    /\ response_data # None
    /\ response_data.stop_reason = "tool_use"
    /\ Invocations(response_data.content) = {}
    /\ response_data.content # <<>>

(***************************************************************************)
(* C9  Successful round trip.  When the first reply is a tool-use request  *)
(* and the follow-up call succeeds, the cycle adds four turns: the user    *)
(* turn, the first reply's content, a turn of a role other than assistant  *)
(* with one tool_result block, and the follow-up reply's content.          *)
(***************************************************************************)
RoundTrip_C9 ==
    (CycleOver /\ FirstIsToolUseRequest /\ fault = "no") =>
        LET n == Len(cycleStart) IN
        /\ final_response # None
        /\ Len(conversation) = n + 4
        /\ SubSeq(conversation, 1, n) = cycleStart
        /\ conversation[n + 1] = UserTurn(user_input)
        /\ conversation[n + 2] = AssistantTurn(response_data.content)
        /\ conversation[n + 3].role # "assistant"
        /\ Len(Blocks(conversation[n + 3])) = 1
        /\ Blocks(conversation[n + 3])[1].type = "tool_result"
        /\ conversation[n + 4] = AssistantTurn(final_response.content)

\* a round trip whose first reply held a text block and a tool_use block
RoundTrip_C9_Witness ==
    /\ CycleOver /\ FollowupSucceeded
    /\ Len(response_data.content) = 2
    /\ response_data.content[1].type = "text"
    /\ final_response.content # <<>>

(***************************************************************************)
(* C10  Plain answer.  When the first reply has a stop reason other than   *)
(* tool_use, the cycle makes one send_message call, runs no tool, and adds *)
(* the user turn and one assistant turn with the reply's content blocks    *)
(* unchanged.                                                              *)
(***************************************************************************)
PlainAnswer_C10 ==
    (/\ CycleOver
     /\ response_data # None
     /\ response_data.stop_reason # "tool_use") =>
        /\ calls = 1
        /\ execs = <<>>
        /\ conversation = cycleStart \o <<UserTurn(user_input),
                                          AssistantTurn(response_data.content)>>

\* a max_tokens reply that holds a tool_use block next to a text block
PlainAnswer_C10_Witness ==
    /\ CycleOver
    /\ response_data # None
    /\ response_data.stop_reason = "max_tokens"
    /\ Len(response_data.content) = 2
    /\ Invocations(response_data.content) # {}
    /\ \E i \in 1..2 : response_data.content[i].type = "text"

(***************************************************************************)
(* C11  Tool Executor error conversion.  execute_tool always hands back a  *)
(* dictionary; for a name other than the registered one, and for a handler *)
(* that raises, the dictionary holds an error and the tool_result block    *)
(* the orchestrator appends has is_error true.                             *)
(***************************************************************************)
ExecutorConversion_C11 ==
    pc \in {"appending", "awaiting_followup"} =>
        /\ tool_result # NoResult
        /\ (tool_use.name # "search_web" \/ tool_use.input.t # "object") =>
              /\ "error" \in DOMAIN tool_result
              /\ tool_use.name # "search_web" =>
                    tool_result.error = "Unknown tool: " \o tool_use.name
              /\ pc = "awaiting_followup" =>
                    /\ Blocks(LastTurn)[1].type = "tool_result"
                    /\ Blocks(LastTurn)[1].is_error = TRUE

\* the registered handler raised on a non-mapping input and the result was appended
ExecutorConversion_C11_Witness ==
    /\ pc = "awaiting_followup"
    /\ tool_use.name = "search_web"
    /\ tool_use.input = JsonNull
    /\ Blocks(LastTurn)[1].is_error = TRUE

(***************************************************************************)
(* C12  Reset.  A reset step (the only step from idle to idle) empties the *)
(* transcript and makes no send_message call and no tool execution; and    *)
(* the state after the first user input that follows a reset is the state  *)
(* after that input at session start (the service's id counter apart), so  *)
(* what follows a reset is what follows a fresh start.                     *)
(***************************************************************************)
AfterFirstInput(u) ==
    /\ pc' = "awaiting_reply"
    /\ conversation' = <<UserTurn(u)>>
    /\ user_input' = u
    /\ response_data' = None
    /\ tool_use' = NoBlock
    /\ conversation_copy' = <<>>
    /\ tool_result' = NoResult
    /\ final_response' = None
    /\ cycleStart' = <<>>
    /\ calls' = 0
    /\ execs' = <<>>
    /\ outcome' = "running"
    /\ fault' = "no"

Reset_C12 ==
    [][ /\ (pc = "idle" /\ pc' = "idle") =>
              /\ conversation' = <<>>
              /\ calls' = calls
              /\ execs' = execs
              /\ nextId' = nextId
        /\ (pc = "idle" /\ outcome \in {"none", "reset"} /\ pc' = "awaiting_reply") =>
              AfterFirstInput(user_input')
      ]_vars

\* a reset taken after a cycle that ran a tool and left turns behind
Reset_C12_Witness ==
    /\ pc = "idle"
    /\ outcome = "reset"
    /\ conversation = <<>>
    /\ execs # <<>>
    /\ final_response # None

(***************************************************************************)
(* C13  Transport frame.  The messages send_message was given are the same *)
(* turns, in the same order, when the call returns a reply, returns None   *)
(* or raises.                                                              *)
(***************************************************************************)
TransportFrame_C13 == sentAfter = sent

\* a follow-up call that failed, made with the tool turns in the transcript
TransportFrame_C13_Witness ==
    /\ pc = "idle"
    /\ calls = 2
    /\ fault = "none"
    /\ Len(sent) >= 4
    /\ IsToolResultTurn(sent[Len(sent)])

(***************************************************************************)
(* C14  All-or-nothing tool round trip.  When control is back in the input *)
(* loop after a cycle whose first reply was a tool-use request, the        *)
(* transcript past the user turn holds either nothing, or the assistant    *)
(* turn with the invocation, the tool result turn and the final assistant  *)
(* turn, in that order; never one or two of them.                          *)
(***************************************************************************)
TurnsOfCycle ==
    SubSeq(conversation, Len(cycleStart) + 2, Len(conversation))

AllOrNothing_C14 ==
    (CycleOver /\ FirstIsToolUseRequest) =>
        /\ Len(conversation) > Len(cycleStart)
        /\ \/ TurnsOfCycle = <<>>
           \/ /\ Len(TurnsOfCycle) = 3
              /\ TurnsOfCycle[1] = AssistantTurn(response_data.content)
              /\ IsToolResultTurn(TurnsOfCycle[2])
              /\ TurnsOfCycle[3].role = "assistant"
              /\ ~IsToolResultTurn(TurnsOfCycle[3])

\* both ends are reached: this one is a full round trip on a transcript with history
AllOrNothing_C14_Witness ==
    /\ CycleOver /\ FirstIsToolUseRequest
    /\ Len(TurnsOfCycle) = 3
    /\ Len(cycleStart) = 2
    /\ ToolOutcomeIsError

(***************************************************************************)
(* C15  Step order in a tool-use cycle.                                    *)
(*                                                                         *)
(* As first stated: while the tool is about to run or has just run, the    *)
(* transcript already ends with the assistant turn that holds the          *)
(* invocation, and the tool result turn is in place before the follow-up   *)
(* call.                                                                   *)
(***************************************************************************)
StepOrder_C15_Original ==
    /\ pc \in {"executing", "appending"} =>
          LastTurn = AssistantTurn(response_data.content)
    /\ pc = "awaiting_followup" =>
          /\ IsToolResultTurn(LastTurn)
          /\ calls = 1

(***************************************************************************)
(* C15 as amended: the tool runs first.  While the tool is about to run or *)
(* has just returned, the transcript still ends with the cycle's user      *)
(* turn; the assistant turn and then the tool result turn are appended     *)
(* after the tool has returned and before the follow-up call.              *)
(***************************************************************************)
StepOrder_C15 ==
    /\ pc = "executing" =>
          /\ conversation = Append(cycleStart, UserTurn(user_input))
          /\ tool_result = NoResult
    /\ pc = "appending" =>
          /\ conversation = Append(cycleStart, UserTurn(user_input))
          /\ tool_result # NoResult
          /\ Len(execs) = 1
    /\ pc = "awaiting_followup" =>
          /\ conversation =
                cycleStart \o <<UserTurn(user_input),
                                AssistantTurn(response_data.content),
                                ToolResultMessage(tool_use, tool_result)>>
          /\ Len(execs) = 1
          /\ calls = 1

\* the tool has returned a result and nothing of the reply is in the transcript yet
StepOrder_C15_Witness ==
    /\ pc = "appending"
    /\ tool_result # NoResult
    /\ "error" \notin DOMAIN tool_result
    /\ LastTurn = UserTurn(user_input)

(***************************************************************************)
(* C16  Prefix preservation.  From the start of a cycle until the next     *)
(* reset, the transcript the cycle started with, followed by the cycle's   *)
(* user turn, is a prefix of the transcript.  A step that shortens the     *)
(* transcript is a reset, or the restore after a failed follow-up call,    *)
(* which goes back to exactly that prefix.                                 *)
(***************************************************************************)
PrefixKept ==
    /\ Len(conversation) > Len(cycleStart)
    /\ SubSeq(conversation, 1, Len(cycleStart)) = cycleStart
    /\ conversation[Len(cycleStart) + 1].role = "user"
    /\ "str" \in DOMAIN conversation[Len(cycleStart) + 1].content

PrefixPreserved_C16 ==
    [][ /\ outcome' \notin {"none", "reset"} => PrefixKept'
        /\ Len(conversation') < Len(conversation) =>
              \/ pc = "idle" /\ pc' = "idle" /\ conversation' = <<>>
              \/ /\ pc = "awaiting_followup"
                 /\ pc' = "idle"
                 /\ conversation' = Append(cycleStart, UserTurn(user_input))
      ]_vars

\* a restore that went back over two appended turns to a three-turn transcript
PrefixPreserved_C16_Witness ==
    /\ CycleOver /\ FollowupFailed
    /\ Len(cycleStart) = 2
    /\ Len(sent) = 5
    /\ Len(conversation) = 3

(***************************************************************************)
(* C17  No automatic retry.  Once a send_message call of a cycle has       *)
(* failed, control is back in the input loop: the failed call was the      *)
(* cycle's last call, and no tool runs after it.  A cycle makes at most    *)
(* two calls, and a call is made only in a cycle that a user input opened. *)
(***************************************************************************)
NoRetry_C17 ==
    /\ calls <= 2
    /\ fault # "no" =>
          /\ pc \in {"idle", "exited"}
          /\ calls = IF response_data = None THEN 1 ELSE 2
          /\ response_data = None => execs = <<>>
          /\ response_data # None => Len(execs) = 1
    /\ pc \in {"awaiting_reply", "awaiting_followup"} =>
          /\ outcome = "running"
          /\ fault = "no"
          /\ calls = IF pc = "awaiting_reply" THEN 0 ELSE 1

\* a failed first call, then a new input whose first call failed as well
NoRetry_C17_Witness ==
    /\ pc = "idle"
    /\ fault = "raise"
    /\ calls = 1
    /\ Len(conversation) = 2
    /\ conversation[1].role = "user"
    /\ conversation[2].role = "user"

(***************************************************************************)
(* C18  Cycle completion.  With every send_message call and every tool     *)
(* execution returning, a cycle that has started leads back to the input   *)
(* loop; and a line is read, and a cycle opened, only from the input loop. *)
(*                                                                         *)
(* Stated so that a finite run refutes it: inside a cycle a step of the    *)
(* cycle is always possible, every step taken inside a cycle moves to a    *)
(* position strictly nearer the input loop, and never out of the program.  *)
(* Under FairSpec, which takes possible steps, this is the statement that  *)
(* the cycle reaches the input loop (Completion_C18_Live).                 *)
(***************************************************************************)
InCycle == pc \notin {"idle", "exited"}

\* how many steps a position is from the input loop, at most
StepsLeft(p) ==
    CASE p = "awaiting_reply" -> 5
      [] p = "classify" -> 4
      [] p = "executing" -> 3
      [] p = "appending" -> 2
      [] p = "awaiting_followup" -> 1
      [] p = "idle" -> 0

Completion_C18 ==
    /\ [](InCycle => ENABLED CycleStep)
    /\ [][InCycle =>
            /\ pc' \in {"idle", "awaiting_reply", "classify", "executing",
                        "appending", "awaiting_followup"}
            /\ StepsLeft(pc') < StepsLeft(pc)]_vars
    /\ [][(user_input' # user_input \/ pc' = "awaiting_reply") => pc = "idle"]_vars

Completion_C18_Live == InCycle ~> (pc = "idle")

\* a second cycle, opened after a completed one, is at its follow-up call
Completion_C18_Witness ==
    /\ pc = "awaiting_followup"
    /\ Len(cycleStart) = 2
    /\ cycleStart[2].role = "assistant"

(***************************************************************************)
(* C19  In every state, in a cycle or between cycles, a tool result turn   *)
(* comes right after an assistant turn that holds a tool_use block with    *)
(* the same id: it is never the first turn, and never follows a typed user *)
(* turn or another tool result turn.                                       *)
(***************************************************************************)
ToolResultAnchored_C19 ==
    \A i \in 1..Len(conversation) :
        \A m \in 1..Len(Blocks(conversation[i])) :
            Blocks(conversation[i])[m].type = "tool_result" =>
                /\ i > 1
                /\ conversation[i - 1].role = "assistant"
                /\ ~IsToolResultTurn(conversation[i - 1])
                /\ \E k \in Invocations(Blocks(conversation[i - 1])) :
                      Blocks(conversation[i - 1])[k].id =
                          Blocks(conversation[i])[m].tool_use_id

\* in the middle of a cycle, the result of the second of two ids sits at the end
ToolResultAnchored_C19_Witness ==
    /\ pc = "awaiting_followup"
    /\ IsToolResultTurn(LastTurn)
    /\ Len(conversation) = 5
    /\ conversation[2].role = "assistant"
    /\ Invocations(Blocks(conversation[2])) # {}

(***************************************************************************)
(* C20  In every state, an assistant turn comes right after a turn that is *)
(* not an assistant turn: the transcript never starts with an assistant    *)
(* turn and never holds two assistant turns in a row.                      *)
(***************************************************************************)
AssistantAlternates_C20 ==
    \A i \in 1..Len(conversation) :
        conversation[i].role = "assistant" =>
            /\ i > 1
            /\ conversation[i - 1].role # "assistant"

\* two typed user turns in a row, left by a failed first call, then an answer
AssistantAlternates_C20_Witness ==
    /\ Len(conversation) = 3
    /\ "str" \in DOMAIN conversation[1].content
    /\ "str" \in DOMAIN conversation[2].content
    /\ conversation[3].role = "assistant"
    /\ pc = "idle"

====
